---- MODULE Spec2Model ----
(***************************************************************************)
(* The browser-side recording hooks of the repository as a state machine:  *)
(*   src/src/hooks/useOfflineRecorder.ts   (hook = "offline")              *)
(*   src/src/hooks/useRealtimeRecorder.ts  (hook = "realtime")             *)
(*   src/unnamed/part_005 useAudioRecorder (hook = "audio")                *)
(* Every handler (an API call of the hook, or a platform callback the hook *)
(* registered) is one action; a handler runs to completion before the next *)
(* one starts (one event loop), and an await that waits for the platform   *)
(* splits a handler in two actions.  React state is committed and rendered *)
(* between two handlers, so a callback reads the state of the render it    *)
(* was created in: the values at the time the caller invoked it.           *)
(* The transcribe-audio function (supabase/functions/transcribe-audio) is  *)
(* modelled beside them: its requests share no state with the hooks.       *)
(* The components that mount a hook (pages/CreatorStudio.tsx with the      *)
(* offline hook, components/LiveEventRecorder.tsx with the realtime hook)  *)
(* are modelled around it: host names the component, and "none" stands for *)
(* a caller that makes the hook's calls in any order.                      *)
(***************************************************************************)
EXTENDS Integers, Sequences, FiniteSets, TLC

\* ------------------------------------------------------------------ bounds
MaxStarts == 2      \* startRecording() calls in one behaviour
MaxStops == 2       \* stopRecording() calls in one behaviour
MaxChunks == 2      \* non-empty chunks the recorders emit in one behaviour
MaxResults == 2     \* recognition result events in one behaviour
MaxPending == 1     \* storage continuations and requests outstanding at a pause
MaxResultLen == 1   \* results in one recognition event
ClockStarts == 1    \* startRecording() calls in one behaviour under the clock
ClockStops == 1     \* stopRecording() calls in one behaviour under the clock
StoreStarts == 2    \* startRecording() calls in one behaviour of the checkpoint store
StoreStops == 2     \* stopRecording() calls in one behaviour of the checkpoint store
StoreChunks == 5    \* non-empty chunks emitted in one behaviour of the checkpoint store
ResultStarts == 1   \* startRecording() calls in one behaviour of the result events
ResultStops == 1    \* stopRecording() calls in one behaviour of the result events
ResultCount == 2    \* recognition result events in one behaviour of the result events
ResultLen == 2      \* results in one recognition event of the result events
MaxNow == 4         \* the clock stops advancing here (in clock units)
Res == 2            \* clock units per second (Date.now() is finer than a tick)
MaxRequests == 2    \* requests the transcribe-audio function serves in one behaviour
StudioStarts == 2   \* recordings started on the CreatorStudio page in one behaviour
StudioStops == 2    \* recordings finished on the CreatorStudio page in one behaviour
LiveStarts == 2     \* recordings started in LiveEventRecorder in one behaviour
LiveStops == 2      \* recordings stopped in LiveEventRecorder in one behaviour
LiveResults == 1    \* recognition result events in one behaviour of LiveEventRecorder

\* ------------------------------------------------------- program constants
CheckpointEvery == 5   \* chunksRef.current.length % 5 === 0
MinTranscript == 20    \* transcription.length < 20

Sessions == 1..MaxStarts
Null == 0
Hooks == {"offline", "realtime", "audio"}
NoError == [kind |-> "none", detail |-> ""]
MicError == [kind |-> "microphone", detail |-> ""]
UnsupportedError == [kind |-> "unsupported", detail |-> ""]
RecognitionErrorMessage(e) == [kind |-> "recognition", detail |-> e]
Words == {"a", "b"}
RecognitionErrors == {"no-speech", "network", "audio-capture"}
NullBlob == [isNull |-> TRUE, parts |-> <<>>]

\* The components: their stages, and an invocation of one of their async
\* handlers while it awaits (on: the start or stop call it awaits; pc: the
\* await it is at).
Hosts == {"none", "CreatorStudio", "LiveEventRecorder"}
StudioStage == {"ready", "recording", "inputs", "platform-select", "processing",
                "completed"}
ProcessingStage == {"idle", "uploading", "transcribing", "analyzing",
                    "generating", "completed", "error"}
NoMessage == ""
NoRecording == [audioBlob |-> NullBlob, transcript |-> <<>>, duration |-> 0]

\* The transcribe-audio function: its requests, the replies of the upstream
\* completion API, and the responses it returns.
HttpRequests == 1..MaxRequests
Methods == {"OPTIONS", "POST"}
FormBodies == {"malformed", "noAudio", "audio"}
Statuses == {200, 429, 402, 500}
Texts == {"", "x", "y"}
\* What data.choices?.[0]?.message?.content evaluates to.
Contents == [defined : BOOLEAN, text : Texts]
Undefined == [defined |-> FALSE, text |-> ""]
\* response.ok
Ok(status) == status \in 200..299
\* The outcomes of a fetch(): it rejects (no response), or resolves with a
\* status and a body that is JSON or not; the body of a response that is not
\* ok, and the content of a body that is not JSON, are never looked at.
NoReply == [kind |-> "none", status |-> 0, json |-> FALSE, content |-> Undefined]
Rejected == [kind |-> "rejected", status |-> 0, json |-> FALSE, content |-> Undefined]
Replies ==
  {Rejected}
  \cup {[kind |-> "response", status |-> s, json |-> FALSE, content |-> Undefined] :
          s \in Statuses}
  \cup {[kind |-> "response", status |-> s, json |-> TRUE, content |-> c] :
          s \in {x \in Statuses : Ok(x)}, c \in Contents \ {Undefined}}
  \cup {[kind |-> "response", status |-> s, json |-> TRUE, content |-> Undefined] :
          s \in {x \in Statuses : Ok(x)}}
NoResponse == [status |-> 0, kind |-> "none", text |-> ""]
NoRequest == [pc |-> "none", transcription |-> "", response |-> NoResponse,
              calls |-> [transcription |-> 0, postProcess |-> 0],
              replies |-> [transcription |-> NoReply, postProcess |-> NoReply]]

VARIABLES
  hook,               \* which of the three hooks the component uses
  hasSpeech,          \* window.SpeechRecognition || webkitSpeechRecognition
  isRecording, isPaused, duration, liveTranscript, analyser, error,  \* useState
  mediaRecorderRef, streamRef, audioContextRef, chunksRef, timerRef,
  startTimeRef, pausedDurationRef, recognitionRef, finalTranscriptRef,
  recordingIdRef,     \* useRef
  starts,             \* startRecording invocations (its await of getUserMedia),
                      \* each with the lifecycle phase it was called in
  stops,              \* the promises stopRecording returned
  recorders,          \* the MediaRecorder objects, one per granted start
  tracksLive,         \* the MediaStreams whose tracks have not been stopped
  recogs,             \* the SpeechRecognition objects, one per granted start
  timers,             \* the live setInterval timers
  now,                \* Date.now(), in clock units
  recordedTime,       \* clock units the current session has spent Recording
  db,                 \* module-level IndexedDB handle (useOfflineRecorder.ts:32)
  dbWait,             \* continuations awaiting getDB() while the store opens
  dbQueue,            \* requests issued to the store, served in order
  store,              \* the 'recordings' object store, keyed by id
  emitted,            \* per recorder, the non-empty chunks it has emitted
  nResults,           \* recognition result events delivered
  overlapped,         \* a start() was issued before the session before it was over
  storeFailed,        \* openDB or a store request has failed
  lastCall,           \* the last API call and how it ended
  request,            \* the invocations of the transcribe-audio function
  host,               \* the component that mounts the hook
  stage,              \* CreatorStudio: useState<StudioStage>
  processingStage,    \* LiveEventRecorder: useState<ProcessingStage>
  generatedContent,   \* useState of the host: the content it generated
  errorMessage,       \* LiveEventRecorder: useState<string | null>
  recorded,           \* CreatorStudio: recordedAudioBlob, -Transcript, -Duration
  handlers            \* the host's async handlers that are awaiting a promise

hookState == <<isRecording, isPaused, duration, liveTranscript, analyser, error>>
refs == <<mediaRecorderRef, streamRef, audioContextRef, chunksRef, timerRef,
          startTimeRef, pausedDurationRef, recognitionRef, finalTranscriptRef,
          recordingIdRef>>
clock == <<now, recordedTime>>
platform == <<recorders, tracksLive, recogs, timers, clock>>
storage == <<db, dbWait, dbQueue, store>>
history == <<emitted, nResults, overlapped, storeFailed>>
component == <<host, stage, processingStage, generatedContent, errorMessage,
               recorded, handlers>>
vars == <<hook, hasSpeech, hookState, refs, starts, stops, platform, storage,
          history, lastCall, request, component>>

\* ----------------------------------------------------------------- helpers
NumStarts == Cardinality({s \in Sessions : starts[s].st # "none"})
NumStops == Len(stops)
RECURSIVE SumLen(_, _)
SumLen(f, S) == IF S = {} THEN 0
                ELSE LET x == CHOOSE y \in S : TRUE
                     IN Len(f[x]) + SumLen(f, S \ {x})
NumChunks == SumLen(emitted, Sessions)

IsPrefix(p, q) == Len(p) <= Len(q) /\ SubSeq(q, 1, Len(p)) = p

\* The lifecycle state of the Session Controller, read off the observable
\* fields (the hooks keep no explicit state variable).
Acquiring == \E s \in Sessions : starts[s].st = "acquiring"
StopPending == \E k \in 1..Len(stops) : stops[k].st = "pending"
Lifecycle ==
  IF isRecording THEN (IF isPaused THEN "Paused" ELSE "Recording")
  ELSE IF StopPending THEN "Finalizing"
  ELSE IF error = MicError THEN "Error"
  ELSE "Idle"

\* The same, telling apart the time a start() awaits the device.
Phase == IF Acquiring THEN "Acquiring" ELSE Lifecycle

Call(op, outcome) == [op |-> op, outcome |-> outcome]

\* ------------------------------------------------------ platform semantics
\* MediaRecorder.pause(): InvalidStateError when inactive, else state paused.
MediaRecorderPause(st) == IF st = "inactive" THEN "InvalidStateError" ELSE "paused"
\* MediaRecorder.resume(): InvalidStateError when inactive, else recording.
MediaRecorderResume(st) == IF st = "inactive" THEN "InvalidStateError" ELSE "recording"
\* SpeechRecognition.start(): throws when already started (callers catch it).
RecognitionStart(run) == IF run = "stopped" THEN "running" ELSE run
\* SpeechRecognition.stop(): the end event follows later.
RecognitionStop(run) == IF run = "running" THEN "stopping" ELSE run

\* ------------------------------------------------------------------ timers
FreshTimer(ts) == CHOOSE i \in 1..(Cardinality(DOMAIN ts) + 1) : i \notin DOMAIN ts
\* startTimer: setInterval(..., 1000); the handle overwrites timerRef.current.
StartTimer(ts, cloPaused) ==
  LET id == FreshTimer(ts)
  IN [timers |-> [t \in DOMAIN ts \cup {id} |->
                    IF t = id THEN [due |-> now + Res, cloIsPaused |-> cloPaused]
                    ELSE ts[t]],
      ref |-> id]
\* stopTimer: clearInterval(timerRef.current) when set.
StopTimer(ts, ref) ==
  IF ref # Null THEN [t \in DOMAIN ts \ {ref} |-> ts[t]] ELSE ts
\* The interval callback's value.
Elapsed == ((now - startTimeRef) \div Res) + pausedDurationRef

\* ----------------------------------------------------------- initial state
InitHooks ==
  /\ hook \in Hooks
  /\ hasSpeech \in (IF hook = "audio" THEN {FALSE} ELSE BOOLEAN)
  /\ isRecording = FALSE /\ isPaused = FALSE /\ duration = 0
  /\ liveTranscript = <<>> /\ analyser = Null /\ error = NoError
  /\ mediaRecorderRef = Null /\ streamRef = Null /\ audioContextRef = Null
  /\ chunksRef = <<>> /\ timerRef = Null /\ startTimeRef = 0
  /\ pausedDurationRef = 0 /\ recognitionRef = Null
  /\ finalTranscriptRef = <<>> /\ recordingIdRef = Null
  /\ starts = [s \in Sessions |->
                 [st |-> "none", cloIsRecording |-> FALSE, cloIsPaused |-> FALSE,
                  phase |-> "none"]]
  /\ stops = <<>>
  /\ recorders = [s \in Sessions |->
                    [state |-> "none", onstop |-> Null, stopQueued |-> FALSE]]
  /\ tracksLive = {}
  /\ recogs = [s \in Sessions |-> "none"]
  /\ timers = <<>>
  /\ now = 0
  /\ recordedTime = 0
  /\ db = FALSE /\ dbWait = <<>> /\ dbQueue = <<>>
  /\ store = [s \in Sessions |-> [present |-> FALSE, chunks |-> <<>>]]
  /\ emitted = [s \in Sessions |-> <<>>]
  /\ nResults = 0
  /\ overlapped = FALSE
  /\ storeFailed = FALSE
  /\ lastCall = [op |-> "none", outcome |-> "none"]
  /\ request = [r \in HttpRequests |-> NoRequest]

\* The component h as it is mounted.
InitComponent(h) ==
  /\ host = h
  /\ stage = "ready"
  /\ processingStage = "idle"
  /\ generatedContent = (IF h = "CreatorStudio" THEN "empty" ELSE "null")
  /\ errorMessage = NoMessage
  /\ recorded = NoRecording
  /\ handlers = {}

Init == InitHooks /\ InitComponent("none")

\* ------------------------------------------------------------------ storage
PutRequest(id, chunks) ==
  [kind |-> "put", id |-> id, chunks |-> chunks, synced |-> FALSE, k |-> Null,
   blob |-> NullBlob]
DeleteRequest(id, k, blob) ==
  [kind |-> "delete", id |-> id, chunks |-> <<>>, synced |-> FALSE, k |-> k,
   blob |-> blob]
SaveWaiter == [kind |-> "save", k |-> Null, blob |-> NullBlob]
DeleteWaiter(k, blob) == [kind |-> "delete", k |-> k, blob |-> blob]

\* saveToIndexedDB with the chunk list as the handler left it: the guard, then
\* await getDB(); with the handle open the put is issued before any other
\* handler runs, otherwise the continuation waits for the store to open.
SaveToIndexedDB(chunks, wait, queue) ==
  IF Len(chunks) > 0 /\ recordingIdRef # Null
  THEN IF db THEN [wait |-> wait,
                   queue |-> Append(queue, PutRequest(recordingIdRef, chunks))]
       ELSE [wait |-> Append(wait, SaveWaiter), queue |-> queue]
  ELSE [wait |-> wait, queue |-> queue]

\* resolve(...) of the promise of stop call k; a settled promise stays as it is.
Resolve(ss, k, blob, transcript) ==
  IF k # Null /\ ss[k].st = "pending"
  THEN [ss EXCEPT ![k] = [@ EXCEPT !.st = "resolved", !.audioBlob = blob,
                                   !.transcript = transcript]]
  ELSE ss

\* The tail of the recorder's onstop handler: empty the buffer, stop the
\* tracks of the stream streamRef holds now, resolve the handler's promise.
FinalizeStop(k, blob) ==
  /\ chunksRef' = <<>>
  /\ tracksLive' = IF streamRef # Null THEN tracksLive \ {streamRef} ELSE tracksLive
  /\ streamRef' = Null
  /\ stops' = Resolve(stops, k, blob, finalTranscriptRef)

\* ------------------------------------------------- the mounting component
\* String.prototype.trim on a transcript.
RECURSIVE TrimStart(_)
TrimStart(text) ==
  IF text # <<>> /\ Head(text) = " " THEN TrimStart(Tail(text)) ELSE text
RECURSIVE TrimEnd(_)
TrimEnd(text) ==
  IF text # <<>> /\ text[Len(text)] = " "
  THEN TrimEnd(SubSeq(text, 1, Len(text) - 1)) ELSE text
Trim(text) == TrimEnd(TrimStart(text))

\* An invocation of a handler, with the duration of the render it closes over.
Handler(name, on) ==
  [name |-> name, on |-> on, pc |-> "await", duration |-> duration,
   audioBlob |-> NullBlob, transcription |-> <<>>, data |-> "none"]

\* The handlers of the host that a step of the hook invoked (the host calls
\* startRecording and stopRecording from its handlers only).
Invoked(start, stop) ==
  (IF NumStarts' > NumStarts THEN {Handler(start, NumStarts')} ELSE {})
  \cup (IF Len(stops') > Len(stops) THEN {Handler(stop, Len(stops'))} ELSE {})

\* CreatorStudio: handleStartRecording goes on past its await when the
\* startRecording it called returns, granted or not, and handleStopRecording
\* when its stopRecording resolves; both run within the step that settles
\* the promise.
StudioFollows ==
  LET called == handlers \cup Invoked("handleStartRecording", "handleStopRecording")
      started == {h \in called : /\ h.name = "handleStartRecording"
                                 /\ starts'[h.on].st \in {"granted", "rejected"}}
      stopped == {h \in called : /\ h.name = "handleStopRecording"
                                 /\ stops'[h.on].st = "resolved"}
  IN
  /\ handlers' = called \ (started \cup stopped)
  /\ stage' = IF stopped # {} THEN "inputs"
              ELSE IF started # {} THEN "recording"
              ELSE stage
  /\ recorded' = IF stopped = {} THEN recorded
                 ELSE LET h == CHOOSE h \in stopped : TRUE
                      IN [audioBlob |-> stops'[h.on].audioBlob,
                          transcript |-> stops'[h.on].transcript,
                          duration |-> h.duration]
  /\ UNCHANGED <<host, processingStage, generatedContent, errorMessage>>

\* LiveEventRecorder: handleStopAndProcess goes on past its first await when
\* its stopRecording resolves: without a blob it returns, with one it sets
\* the stage and awaits getUser().
LiveFollows ==
  LET called == handlers \cup Invoked("startRecording", "handleStopAndProcess")
      started == {h \in called : h.name = "startRecording"}
      ran == {h \in called : /\ h.name = "handleStopAndProcess" /\ h.pc = "await"
                             /\ stops'[h.on].st = "resolved"}
      withBlob == {h \in ran : ~stops'[h.on].audioBlob.isNull}
      Uploading(h) == [h EXCEPT !.pc = "getUser",
                                !.audioBlob = stops'[h.on].audioBlob,
                                !.transcription = Trim(stops'[h.on].transcript)]
  IN
  /\ handlers' = (called \ (started \cup ran)) \cup {Uploading(h) : h \in withBlob}
  /\ processingStage' = IF withBlob # {} THEN "uploading" ELSE processingStage
  /\ errorMessage' = IF withBlob # {} THEN NoMessage ELSE errorMessage
  /\ UNCHANGED <<host, stage, generatedContent, recorded>>

\* What the host's handlers do within a step of the hook.
ComponentFollows ==
  IF host = "CreatorStudio" THEN StudioFollows
  ELSE IF host = "LiveEventRecorder" THEN LiveFollows
  ELSE UNCHANGED component

\* -------------------------------------------------------------- API: start
\* startRecording up to its await of getUserMedia.
StartRecording ==
  LET s == NumStarts + 1 IN
  /\ error' = NoError
  /\ chunksRef' = <<>>
  /\ pausedDurationRef' = 0
  /\ duration' = 0
  /\ liveTranscript' = <<>>
  /\ finalTranscriptRef' = <<>>
  /\ recordingIdRef' = IF hook = "offline" THEN s ELSE recordingIdRef
  /\ starts' = [starts EXCEPT ![s] = [st |-> "acquiring",
                                       cloIsRecording |-> isRecording,
                                       cloIsPaused |-> isPaused,
                                       phase |-> Phase]]
  /\ lastCall' = Call("start", "done")
  /\ recordedTime' = 0
  /\ overlapped' = (overlapped \/ Acquiring \/ Lifecycle \notin {"Idle", "Error"})
  /\ UNCHANGED <<request, hook, hasSpeech, isRecording, isPaused, analyser,
                 mediaRecorderRef, streamRef, audioContextRef, timerRef,
                 startTimeRef, recognitionRef, stops, recorders, tracksLive,
                 recogs, timers, now, storage, emitted, nResults, storeFailed>>
  /\ ComponentFollows

\* getUserMedia resolved: the rest of the try block.
GetUserMediaResolve(s) ==
  LET speech == hook # "audio" /\ hasSpeech
      tm == StartTimer(timers, hook = "audio" /\ starts[s].cloIsPaused)
  IN
  /\ starts[s].st = "acquiring"
  /\ starts' = [starts EXCEPT ![s].st = "granted"]
  /\ streamRef' = s
  /\ tracksLive' = tracksLive \cup {s}
  /\ audioContextRef' = IF hook = "audio" THEN audioContextRef ELSE s
  /\ analyser' = IF hook = "audio" THEN analyser ELSE s
  /\ recorders' = [recorders EXCEPT ![s] =
                     [state |-> "recording", onstop |-> Null, stopQueued |-> FALSE]]
  /\ mediaRecorderRef' = s
  /\ recogs' = IF speech THEN [recogs EXCEPT ![s] = "running"] ELSE recogs
  /\ recognitionRef' = IF speech THEN s ELSE recognitionRef
  /\ error' = IF hook = "realtime" /\ ~hasSpeech THEN UnsupportedError ELSE error
  /\ startTimeRef' = now
  /\ isRecording' = TRUE
  /\ isPaused' = FALSE
  /\ timers' = tm.timers
  /\ timerRef' = tm.ref
  /\ UNCHANGED <<request, hook, hasSpeech, duration, liveTranscript, chunksRef,
                 pausedDurationRef, finalTranscriptRef, recordingIdRef, stops,
                 clock, storage, history, lastCall>>
  /\ ComponentFollows

\* A catch block that records the rejection without reporting it: C6 must
\* tell it from the code's.
GetUserMediaRejectSilent(s) ==
  /\ starts[s].st = "acquiring"
  /\ starts' = [starts EXCEPT ![s].st = "rejected"]
  /\ UNCHANGED <<request, hook, hasSpeech, hookState, refs, stops, platform, storage,
                 history, lastCall>>
  /\ ComponentFollows

\* A catch block that reports the rejection and asks for the device again:
\* C20 must tell it from the code's.
GetUserMediaRejectRetry(s) ==
  /\ starts[s].st = "acquiring"
  /\ error' = MicError
  /\ UNCHANGED <<request, hook, hasSpeech, isRecording, isPaused, duration,
                 liveTranscript, analyser, refs, starts, stops, platform,
                 storage, history, lastCall>>
  /\ ComponentFollows

\* getUserMedia rejected: the catch block.
GetUserMediaReject(s) ==
  /\ starts[s].st = "acquiring"
  /\ starts' = [starts EXCEPT ![s].st = "rejected"]
  /\ error' = MicError
  /\ UNCHANGED <<request, hook, hasSpeech, isRecording, isPaused, duration,
                 liveTranscript, analyser, refs, stops, platform, storage,
                 history, lastCall>>
  /\ ComponentFollows

\* ------------------------------------------------------- API: pause, resume
\* Guards that let pause through on a recorder that is not recording: C7 must
\* tell the first from the code's, C9 the second.
PauseGuardNotInactive ==
  mediaRecorderRef # Null /\ recorders[mediaRecorderRef].state # "inactive"
PauseGuardAnyRecorder == mediaRecorderRef # Null

PauseGuard ==
  mediaRecorderRef # Null /\ recorders[mediaRecorderRef].state = "recording"

PauseRecording ==
  IF ~PauseGuard
  THEN /\ lastCall' = Call("pause", "noop")
       /\ UNCHANGED <<component, request, hook, hasSpeech, hookState, refs, starts, stops, platform,
                      storage, history>>
  ELSE LET st == MediaRecorderPause(recorders[mediaRecorderRef].state)
           sv == IF hook = "offline"
                 THEN SaveToIndexedDB(chunksRef, dbWait, dbQueue)
                 ELSE [wait |-> dbWait, queue |-> dbQueue]
       IN
       IF st = "InvalidStateError"
       THEN /\ lastCall' = Call("pause", "threw")
            /\ UNCHANGED <<component, request, hook, hasSpeech, hookState, refs, starts, stops,
                           platform, storage, history>>
       ELSE /\ recorders' = [recorders EXCEPT ![mediaRecorderRef].state = st]
            /\ pausedDurationRef' = duration
            /\ isPaused' = TRUE
            /\ timers' = StopTimer(timers, timerRef)
            /\ timerRef' = Null
            /\ dbWait' = sv.wait
            /\ dbQueue' = sv.queue
            /\ recogs' = IF hook # "audio" /\ recognitionRef # Null
                         THEN [recogs EXCEPT ![recognitionRef] = RecognitionStop(@)]
                         ELSE recogs
            /\ lastCall' = Call("pause", "done")
            /\ UNCHANGED <<component, request, hook, hasSpeech, isRecording, duration,
                           liveTranscript, analyser, error, mediaRecorderRef,
                           streamRef, audioContextRef, chunksRef, startTimeRef,
                           recognitionRef, finalTranscriptRef, recordingIdRef,
                           starts, stops, tracksLive, clock, db, store, history>>

\* A guard that lets resume through on any recorder: C8 must tell it from
\* the code's.
ResumeGuardAnyRecorder == mediaRecorderRef # Null

ResumeGuard ==
  mediaRecorderRef # Null /\ recorders[mediaRecorderRef].state = "paused"

ResumeRecording ==
  IF ~ResumeGuard
  THEN /\ lastCall' = Call("resume", "noop")
       /\ UNCHANGED <<component, request, hook, hasSpeech, hookState, refs, starts, stops, platform,
                      storage, history>>
  ELSE LET st == MediaRecorderResume(recorders[mediaRecorderRef].state)
           tm == StartTimer(timers, hook = "audio" /\ isPaused)
       IN
       IF st = "InvalidStateError"
       THEN /\ lastCall' = Call("resume", "threw")
            /\ UNCHANGED <<component, request, hook, hasSpeech, hookState, refs, starts, stops,
                           platform, storage, history>>
       ELSE /\ recorders' = [recorders EXCEPT ![mediaRecorderRef].state = st]
            /\ startTimeRef' = now
            /\ isPaused' = FALSE
            /\ timers' = tm.timers
            /\ timerRef' = tm.ref
            /\ recogs' = IF hook # "audio" /\ recognitionRef # Null
                         THEN [recogs EXCEPT ![recognitionRef] = RecognitionStart(@)]
                         ELSE recogs
            /\ lastCall' = Call("resume", "done")
            /\ UNCHANGED <<component, request, hook, hasSpeech, isRecording, duration,
                           liveTranscript, analyser, error, mediaRecorderRef,
                           streamRef, audioContextRef, chunksRef,
                           pausedDurationRef, recognitionRef,
                           finalTranscriptRef, recordingIdRef, starts, stops,
                           tracksLive, clock, storage, history>>

\* --------------------------------------------------------------- API: stop
\* A stop that leaves the paused flag as it is: C27 must tell it from the
\* code's.
StopRecordingKeepsPaused ==
  LET k == Len(stops) + 1
      rec == mediaRecorderRef
      promise == [st |-> "pending", audioBlob |-> NullBlob, transcript |-> <<>>,
                  rec |-> rec]
      resolved == [promise EXCEPT !.st = "resolved",
                                  !.transcript = finalTranscriptRef]
  IN
  /\ timers' = StopTimer(timers, timerRef)
  /\ timerRef' = Null
  /\ isRecording' = FALSE
  /\ isPaused' = isPaused
  /\ recogs' = IF hook # "audio" /\ recognitionRef # Null
               THEN [recogs EXCEPT ![recognitionRef] = RecognitionStop(@)]
               ELSE recogs
  /\ recognitionRef' = Null
  /\ audioContextRef' = Null
  /\ analyser' = Null
  /\ IF rec = Null
     THEN /\ stops' = Append(stops, resolved)
          /\ UNCHANGED recorders
     ELSE IF recorders[rec].state # "inactive"
     THEN /\ recorders' = [recorders EXCEPT ![rec] =
                 [state |-> "inactive", onstop |-> k, stopQueued |-> TRUE]]
          /\ stops' = Append(stops, promise)
     ELSE /\ recorders' = [recorders EXCEPT ![rec].onstop = k]
          /\ stops' = Append(stops, resolved)
  /\ lastCall' = Call("stop", "done")
  /\ UNCHANGED <<request, hook, hasSpeech, duration, liveTranscript, error,
                 mediaRecorderRef, streamRef, chunksRef, startTimeRef,
                 pausedDurationRef, finalTranscriptRef, recordingIdRef, starts,
                 tracksLive, clock, storage, history>>
  /\ ComponentFollows

\* stopRecording: the promise executor, which runs within the call.
StopRecording ==
  LET k == Len(stops) + 1
      rec == mediaRecorderRef
      promise == [st |-> "pending", audioBlob |-> NullBlob, transcript |-> <<>>,
                  rec |-> rec]
      resolved == [promise EXCEPT !.st = "resolved",
                                  !.transcript = finalTranscriptRef]
  IN
  /\ timers' = StopTimer(timers, timerRef)
  /\ timerRef' = Null
  /\ isRecording' = FALSE
  /\ isPaused' = FALSE
  /\ recogs' = IF hook # "audio" /\ recognitionRef # Null
               THEN [recogs EXCEPT ![recognitionRef] = RecognitionStop(@)]
               ELSE recogs
  /\ recognitionRef' = Null
  /\ audioContextRef' = Null
  /\ analyser' = Null
  /\ IF rec = Null
     THEN /\ stops' = Append(stops, resolved)
          /\ UNCHANGED recorders
     ELSE IF recorders[rec].state # "inactive"
     THEN /\ recorders' = [recorders EXCEPT ![rec] =
                 [state |-> "inactive", onstop |-> k, stopQueued |-> TRUE]]
          /\ stops' = Append(stops, promise)
     ELSE /\ recorders' = [recorders EXCEPT ![rec].onstop = k]
          /\ stops' = Append(stops, resolved)
  /\ lastCall' = Call("stop", "done")
  /\ UNCHANGED <<request, hook, hasSpeech, duration, liveTranscript, error,
                 mediaRecorderRef, streamRef, chunksRef, startTimeRef,
                 pausedDurationRef, finalTranscriptRef, recordingIdRef, starts,
                 tracksLive, clock, storage, history>>
  /\ ComponentFollows

\* ------------------------------------------------- MediaRecorder callbacks
\* A buffer that grows at the front: C5 must tell it from the code's.
PushChunkFront(chunks, c) == <<c>> \o chunks

\* chunksRef.current.push(event.data)
PushChunk(chunks, c) == Append(chunks, c)

\* ondataavailable of recorder s with a blob of the given size; c is the
\* chunk's identity (its place in the order of emission).
DataAvailable(s, size) ==
  LET c == NumChunks + 1
      chunks1 == IF size > 0 THEN PushChunk(chunksRef, c) ELSE chunksRef
      sv == IF hook = "offline" /\ size > 0 /\ Len(chunks1) % CheckpointEvery = 0
            THEN SaveToIndexedDB(chunks1, dbWait, dbQueue)
            ELSE [wait |-> dbWait, queue |-> dbQueue]
  IN
  /\ recorders[s].state = "recording"
  /\ chunksRef' = chunks1
  /\ emitted' = IF size > 0 THEN [emitted EXCEPT ![s] = Append(@, c)] ELSE emitted
  /\ dbWait' = sv.wait
  /\ dbQueue' = sv.queue
  /\ UNCHANGED <<component, request, hook, hasSpeech, hookState, mediaRecorderRef, streamRef,
                 audioContextRef, timerRef, startTimeRef, pausedDurationRef,
                 recognitionRef, finalTranscriptRef, recordingIdRef, starts,
                 stops, platform, db, store, nResults, overlapped, storeFailed,
                 lastCall>>

\* The task MediaRecorder.stop() queued: the last dataavailable event, then
\* the stop event, whose handler is the onstop the latest stop call set.
RecorderStopTask(s, size) ==
  LET c == NumChunks + 1
      chunks1 == IF size > 0 THEN PushChunk(chunksRef, c) ELSE chunksRef
      sv == IF hook = "offline" /\ size > 0 /\ Len(chunks1) % CheckpointEvery = 0
            THEN SaveToIndexedDB(chunks1, dbWait, dbQueue)
            ELSE [wait |-> dbWait, queue |-> dbQueue]
      k == recorders[s].onstop
      blob == [isNull |-> FALSE, parts |-> chunks1]
  IN
  /\ recorders[s].stopQueued
  /\ recorders' = [recorders EXCEPT ![s].stopQueued = FALSE]
  /\ emitted' = IF size > 0 THEN [emitted EXCEPT ![s] = Append(@, c)] ELSE emitted
  /\ IF hook = "offline"
     THEN \* async onstop: the blob is built, then await getDB()
          /\ chunksRef' = chunks1
          /\ dbWait' = IF db THEN sv.wait ELSE Append(sv.wait, DeleteWaiter(k, blob))
          /\ dbQueue' = IF db
                        THEN Append(sv.queue, DeleteRequest(recordingIdRef, k, blob))
                        ELSE sv.queue
          /\ UNCHANGED <<streamRef, tracksLive, stops>>
     ELSE /\ FinalizeStop(k, blob)
          /\ UNCHANGED <<dbWait, dbQueue>>
  /\ UNCHANGED <<request, hook, hasSpeech, hookState, mediaRecorderRef, audioContextRef,
                 timerRef, startTimeRef, pausedDurationRef, recognitionRef,
                 finalTranscriptRef, recordingIdRef, starts, recogs, timers,
                 clock, db, store, nResults, overlapped, storeFailed, lastCall>>
  /\ ComponentFollows

\* ------------------------------------------------------ IndexedDB callbacks
\* openDB resolved for the oldest waiting continuation, which reads the refs
\* now and issues its request.
GetDBResolve ==
  LET w == Head(dbWait) IN
  /\ dbWait # <<>>
  /\ db' = TRUE
  /\ dbWait' = Tail(dbWait)
  /\ dbQueue' = Append(dbQueue,
        IF w.kind = "save" THEN PutRequest(recordingIdRef, chunksRef)
        ELSE DeleteRequest(recordingIdRef, w.k, w.blob))
  /\ UNCHANGED <<component, request, hook, hasSpeech, hookState, refs, starts, stops, platform,
                 store, history, lastCall>>

\* A rejection of openDB that nothing catches: the error is reported and an
\* onstop handler ends there. C14 must tell it from the code's.
GetDBRejectUncaught ==
  /\ dbWait # <<>>
  /\ dbWait' = Tail(dbWait)
  /\ storeFailed' = TRUE
  /\ error' = [kind |-> "store", detail |-> ""]
  /\ UNCHANGED <<request, hook, hasSpeech, isRecording, isPaused, duration,
                 liveTranscript, analyser, refs, starts, stops, platform, db,
                 dbQueue, store, emitted, nResults, overlapped, lastCall>>
  /\ ComponentFollows

\* openDB rejected: saveToIndexedDB logs it, onstop goes on past its catch.
GetDBReject ==
  LET w == Head(dbWait) IN
  /\ dbWait # <<>>
  /\ dbWait' = Tail(dbWait)
  /\ storeFailed' = TRUE
  /\ IF w.kind = "delete"
     THEN FinalizeStop(w.k, w.blob)
     ELSE UNCHANGED <<chunksRef, tracksLive, streamRef, stops>>
  /\ UNCHANGED <<request, hook, hasSpeech, hookState, mediaRecorderRef, audioContextRef,
                 timerRef, startTimeRef, pausedDurationRef, recognitionRef,
                 finalTranscriptRef, recordingIdRef, starts, recorders, recogs,
                 timers, clock, db, dbQueue, store, emitted, nResults,
                 overlapped, lastCall>>
  /\ ComponentFollows

\* The object store after it served request q: put replaces the record under
\* the key (keyPath 'id'), delete removes it.
StoreAfter(st, q) ==
  IF q.kind = "put"
  THEN [st EXCEPT ![q.id] = [present |-> TRUE, chunks |-> q.chunks]]
  ELSE [st EXCEPT ![q.id] = [present |-> FALSE, chunks |-> <<>>]]

\* The oldest request completes (ok) or fails; a put replaces the record of
\* its key, a delete removes it and lets onstop go on.
DbRequestDone(ok) ==
  LET q == Head(dbQueue) IN
  /\ dbQueue # <<>>
  /\ dbQueue' = Tail(dbQueue)
  /\ store' = IF ok THEN StoreAfter(store, q) ELSE store
  /\ storeFailed' = (storeFailed \/ ~ok)
  /\ IF q.kind = "delete"
     THEN FinalizeStop(q.k, q.blob)
     ELSE UNCHANGED <<chunksRef, tracksLive, streamRef, stops>>
  /\ UNCHANGED <<request, hook, hasSpeech, hookState, mediaRecorderRef, audioContextRef,
                 timerRef, startTimeRef, pausedDurationRef, recognitionRef,
                 finalTranscriptRef, recordingIdRef, starts, recorders, recogs,
                 timers, clock, db, dbWait, emitted, nResults, overlapped,
                 lastCall>>
  /\ ComponentFollows

\* ------------------------------------------------ SpeechRecognition callbacks
\* The loop of onresult over event.results from event.resultIndex (0-based;
\* i is 1-based here): the text of the final segments, each followed by a
\* space, and the text of the others.
\* The loop run from the last result down to the first: C19 must tell it
\* from the code's.
RECURSIVE FinalTextBackwards(_, _)
FinalTextBackwards(results, i) ==
  IF i > Len(results) THEN <<>>
  ELSE FinalTextBackwards(results, i + 1)
       \o (IF results[i].isFinal THEN results[i].transcript \o <<" ">> ELSE <<>>)

RECURSIVE FinalText(_, _)
FinalText(results, i) ==
  IF i > Len(results) THEN <<>>
  ELSE (IF results[i].isFinal THEN results[i].transcript \o <<" ">> ELSE <<>>)
       \o FinalText(results, i + 1)
RECURSIVE InterimText(_, _)
InterimText(results, i) ==
  IF i > Len(results) THEN <<>>
  ELSE (IF results[i].isFinal THEN <<>> ELSE results[i].transcript)
       \o InterimText(results, i + 1)

\* An assignment in place of the append: C10 must tell it from the code's.
AppendFinalReplace(finalized, final) ==
  IF final # <<>> THEN final ELSE finalized

\* if (final) finalTranscriptRef.current += final
AppendFinal(finalized, final) ==
  IF final # <<>> THEN finalized \o final ELSE finalized

SegmentSet == [transcript : {<<w>> : w \in Words}, isFinal : BOOLEAN]
\* The result events whose result list has at most n entries.
ResultEvents(n) ==
  UNION {{[resultIndex |-> i, results |-> r] : i \in 0..(m - 1), r \in [1..m -> SegmentSet]}
         : m \in 1..n}

\* onresult of recognition object s.
RecognitionResult(s, ev) ==
  LET final == FinalText(ev.results, ev.resultIndex + 1)
      interim == InterimText(ev.results, ev.resultIndex + 1)
      finalized == AppendFinal(finalTranscriptRef, final)
  IN
  /\ recogs[s] \in {"running", "stopping"}
  /\ nResults' = nResults + 1
  /\ finalTranscriptRef' = finalized
  /\ liveTranscript' = finalized \o interim
  /\ UNCHANGED <<component, request, hook, hasSpeech, isRecording, isPaused, duration, analyser,
                 error, mediaRecorderRef, streamRef, audioContextRef, chunksRef,
                 timerRef, startTimeRef, pausedDurationRef, recognitionRef,
                 recordingIdRef, starts, stops, platform, storage, emitted,
                 overlapped, storeFailed, lastCall>>

\* An error handler that gives the session up: C15 must tell it from the
\* code's.
RecognitionErrorStops(s, e) ==
  /\ recogs[s] \in {"running", "stopping"}
  /\ error' = RecognitionErrorMessage(e)
  /\ isRecording' = FALSE
  /\ UNCHANGED <<component, request, hook, hasSpeech, isPaused, duration, liveTranscript, analyser,
                 refs, starts, stops, platform, storage, history, lastCall>>

\* onerror of recognition object s: the offline hook only logs; the realtime
\* hook reports everything but 'no-speech'.
RecognitionError(s, e) ==
  /\ recogs[s] \in {"running", "stopping"}
  /\ error' = IF hook = "realtime" /\ e # "no-speech"
              THEN RecognitionErrorMessage(e) ELSE error
  /\ UNCHANGED <<component, request, hook, hasSpeech, isRecording, isPaused, duration,
                 liveTranscript, analyser, refs, starts, stops, platform,
                 storage, history, lastCall>>

\* What onend reads: isRecording and isPaused of the render startRecording
\* was created in, and recognitionRef.current as it is now.
RestartGuard(s) ==
  starts[s].cloIsRecording /\ ~starts[s].cloIsPaused /\ recognitionRef # Null

\* The recognition of object s ended (by stop(), by silence, by an error):
\* its onend handler.
RecognitionEnd(s) ==
  LET ended == [recogs EXCEPT ![s] = "stopped"] IN
  /\ recogs[s] \in {"running", "stopping"}
  /\ recogs' = IF RestartGuard(s)
               THEN [ended EXCEPT ![recognitionRef] = RecognitionStart(@)]
               ELSE ended
  /\ UNCHANGED <<component, request, hook, hasSpeech, hookState, refs, starts, stops, recorders,
                 tracksLive, timers, clock, storage, history, lastCall>>

\* -------------------------------------------------------------------- clock
\* The callback of interval timer t: the audio hook's skips the update when
\* the isPaused of its render is set.
TimerTick(t) ==
  /\ t \in DOMAIN timers
  /\ timers[t].due <= now
  /\ timers' = [timers EXCEPT ![t].due = @ + Res]
  /\ duration' = IF timers[t].cloIsPaused THEN duration ELSE Elapsed
  /\ UNCHANGED <<component, request, hook, hasSpeech, isRecording, isPaused, liveTranscript,
                 analyser, error, refs, starts, stops, recorders, tracksLive,
                 recogs, clock, storage, history, lastCall>>

\* Time passes; an interval timer fires when it is due.
Advance ==
  /\ \A t \in DOMAIN timers : timers[t].due > now
  /\ now' = now + 1
  /\ recordedTime' = IF Lifecycle = "Recording" THEN recordedTime + 1 ELSE recordedTime
  /\ UNCHANGED <<component, request, hook, hasSpeech, hookState, refs, starts, stops, recorders,
                 tracksLive, recogs, timers, storage, history,
                 lastCall>>

\* ----------------------------------------------------------- specifications
\* The calls the component can make, at any time and in any order.
ApiCall(maxStarts, maxStops) ==
  \/ NumStarts < maxStarts /\ StartRecording
  \/ Len(dbWait) + Len(dbQueue) < MaxPending /\ PauseRecording
  \/ ResumeRecording
  \/ NumStops < maxStops /\ StopRecording

\* The outcome of a pending getUserMedia.
Device ==
  \/ \E s \in Sessions : GetUserMediaResolve(s)
  \/ \E s \in Sessions : GetUserMediaReject(s)

\* The IndexedDB callbacks.
Storage ==
  \/ GetDBResolve
  \/ GetDBReject
  \/ \E ok \in BOOLEAN : DbRequestDone(ok)

\* The hooks with their recorder, storage and recognition-end callbacks: all
\* events fall within one timer interval and recognition delivers no text.
Next ==
  \/ ApiCall(MaxStarts, MaxStops)
  \/ Device
  \/ \E s \in Sessions, size \in {0, 1} :
       (size > 0 => NumChunks < MaxChunks) /\ DataAvailable(s, size)
  \/ \E s \in Sessions, size \in {0, 1} :
       (size > 0 => NumChunks < MaxChunks) /\ RecorderStopTask(s, size)
  \/ Storage
  \/ \E s \in Sessions : RecognitionEnd(s)

Spec == Init /\ [][Next]_vars

\* The hooks with their recognition callbacks: the recorders emit only empty
\* blobs, all events fall within one timer interval.
NextTranscript ==
  \/ ApiCall(MaxStarts, MaxStops)
  \/ Device
  \/ \E s \in Sessions : RecorderStopTask(s, 0)
  \/ Storage
  \/ \E s \in Sessions, ev \in ResultEvents(MaxResultLen) :
       nResults < MaxResults /\ RecognitionResult(s, ev)
  \/ \E s \in Sessions, e \in RecognitionErrors : RecognitionError(s, e)
  \/ \E s \in Sessions : RecognitionEnd(s)

SpecTranscript == Init /\ [][NextTranscript]_vars

\* The hooks under a running clock: the interval timers fire when due, the
\* recorders emit only empty blobs.
NextClock ==
  \/ ApiCall(ClockStarts, ClockStops)
  \/ Device
  \/ \E s \in Sessions : RecorderStopTask(s, 0)
  \/ Storage
  \/ \E s \in Sessions : RecognitionEnd(s)
  \/ \E t \in DOMAIN timers : TimerTick(t)
  \/ now < MaxNow /\ Advance

SpecClock == Init /\ [][NextClock]_vars

\* The offline hook with its checkpoint store: enough chunks for the
\* every-fifth-chunk checkpoint, no recognition, all within one timer interval.
InitStore == Init /\ hook = "offline" /\ ~hasSpeech

NextStore ==
  \/ ApiCall(StoreStarts, StoreStops)
  \/ Device
  \/ \E s \in Sessions : NumChunks < StoreChunks /\ DataAvailable(s, 1)
  \/ \E s \in Sessions, size \in {0, 1} :
       (size > 0 => NumChunks < StoreChunks) /\ RecorderStopTask(s, size)
  \/ Storage

SpecStore == InitStore /\ [][NextStore]_vars

\* The hooks that wrap recognition, on a platform that has it, with result
\* events of more than one result: one session, no chunks, no clock.
InitResults == Init /\ hook # "audio" /\ hasSpeech

NextResults ==
  \/ ApiCall(ResultStarts, ResultStops)
  \/ Device
  \/ \E s \in Sessions : RecorderStopTask(s, 0)
  \/ Storage
  \/ \E s \in Sessions, ev \in ResultEvents(ResultLen) :
       nResults < ResultCount /\ RecognitionResult(s, ev)
  \/ \E s \in Sessions : RecognitionEnd(s)

SpecResults == InitResults /\ [][NextResults]_vars

\* =================================================================== claims
AllButCall == <<hook, hasSpeech, hookState, refs, starts, stops, platform,
                storage, history>>
LastStop == stops[Len(stops)]
StopCalled == Len(stops') = Len(stops) + 1
StartCalled == NumStarts' = NumStarts + 1

\* C1 (under Spec): in a session started from Idle, when the recognition
\* stream's end event fires while the session is Recording, the end handler
\* starts the stream again within that handler run, and leaves liveTranscript
\* and the finalized transcript as they were.
C1_AutoRestart ==
  [][\A s \in Sessions :
       (RecognitionEnd(s) /\ Lifecycle = "Recording" /\ recognitionRef = s
          /\ ~starts[s].cloIsRecording)
       => (recogs'[s] = "running"
           /\ UNCHANGED <<liveTranscript, finalTranscriptRef>>)]_vars

\* C2 (under SpecClock): once a session has been stopped, the reported
\* duration is within one second of the time the session spent Recording.
C2_DurationWithinOneSecond ==
  (stops # <<>> /\ stops[1].rec # Null)
    => (duration * Res - recordedTime) \in (0 - Res)..Res

\* C3 (under Spec): every stop() resolves its promise: once the platform has
\* fired every recorder stop event and served every storage request, no
\* promise is left pending.
C3_StopResolves ==
  ((\A s \in Sessions : ~recorders[s].stopQueued) /\ dbWait = <<>> /\ dbQueue = <<>>)
    => \A k \in 1..Len(stops) : stops[k].st = "resolved"

\* C4 (under SpecTranscript): stop() called in an Idle state resolves at once
\* with a null blob and an empty transcript, and does not throw.
C4_StopInIdle ==
  [][(StopCalled /\ Lifecycle = "Idle")
       => (LastStop'.st = "resolved" /\ LastStop'.audioBlob = NullBlob
           /\ LastStop'.transcript = <<>> /\ lastCall'.outcome # "threw")]_vars

\* C5 (under Spec): the blob a stop() returns holds exactly the non-empty
\* chunks the session's recorder emitted, once each, in the order of emission
\* (sessions that the caller did not overlap with another start()).
C5_BlobIsEmittedChunks ==
  ~overlapped =>
    \A k \in 1..Len(stops) :
      (stops[k].st = "resolved" /\ ~stops[k].audioBlob.isNull)
        => stops[k].audioBlob.parts = emitted[stops[k].rec]
C5_Witness ==
  /\ ~overlapped
  /\ \E k \in 1..Len(stops) :
       stops[k].st = "resolved" /\ Len(stops[k].audioBlob.parts) = 2

\* C6 (under Spec): when getUserMedia rejects a start() made from Idle, the
\* controller is left in Error: the message is set, isRecording is false, no
\* stream is held and no timer runs; a stop() in that state resolves with a
\* null blob, does not throw and changes nothing.
C6_RejectedStart ==
  [][/\ \A s \in Sessions :
          (GetUserMediaReject(s) /\ ~overlapped)
            => (Lifecycle' = "Error" /\ error' = MicError /\ ~isRecording'
                /\ streamRef' = Null /\ tracksLive' = {} /\ DOMAIN timers' = {})
     /\ (StopCalled /\ Lifecycle = "Error" /\ ~overlapped)
            => (LastStop'.st = "resolved" /\ LastStop'.audioBlob = NullBlob
                /\ lastCall'.outcome # "threw" /\ Lifecycle' = "Error"
                /\ UNCHANGED <<hookState, streamRef, tracksLive, timers,
                               timerRef, chunksRef>>)]_vars
C6_Witness ==
  /\ ~overlapped
  /\ Lifecycle = "Error"
  /\ \E s \in Sessions : starts[s].st = "rejected"
  /\ lastCall.op = "stop"
  /\ stops # <<>> /\ LastStop.audioBlob = NullBlob

\* C7 (under Spec): a pause() issued while the session is Paused changes
\* nothing: the lifecycle state, duration, the frozen baseline, the buffered
\* chunks and everything else the hook holds stay as they were.
C7_SecondPauseNoOp ==
  [][(PauseRecording /\ Lifecycle = "Paused")
       => (Lifecycle' = "Paused" /\ lastCall'.outcome = "noop"
           /\ UNCHANGED AllButCall)]_vars
C7_Witness ==
  /\ Lifecycle = "Paused"
  /\ lastCall = [op |-> "pause", outcome |-> "noop"]
  /\ chunksRef # <<>>

\* C8 (under Spec): pause() from any state but Recording, and resume() from
\* any state but Paused, does not throw and leaves isRecording, isPaused,
\* duration, the timer, the chunks and the recognition listener unchanged.
C8_InvalidPauseResumeNoOp ==
  [][((PauseRecording /\ Lifecycle # "Recording")
        \/ (ResumeRecording /\ Lifecycle # "Paused"))
       => (lastCall'.outcome = "noop"
           /\ UNCHANGED <<isRecording, isPaused, duration, timers, timerRef,
                          chunksRef, recogs, recognitionRef>>)]_vars
C8_Witness ==
  /\ Acquiring
  /\ lastCall = [op |-> "resume", outcome |-> "noop"]
  /\ Lifecycle \in {"Idle", "Finalizing"}

\* C9 as claimed (under Spec): a transition attempted after stop has been
\* called fails with InvalidState.
C9_FailsAfterStop ==
  [][(NumStops > 0 /\ ~isRecording
        /\ (PauseRecording \/ ResumeRecording \/ StopCalled \/ StartCalled))
       => lastCall'.outcome = "threw"]_vars
\* C9 as amended (under Spec): after stop has been called, and until a new
\* session records, no call fails: pause and resume change nothing, stop
\* resolves at once with a null blob, start begins an acquisition.
C9_SilentAfterStop ==
  [][NumStops > 0 /\ ~isRecording
       => /\ (PauseRecording \/ ResumeRecording)
               => (lastCall'.outcome = "noop" /\ UNCHANGED AllButCall)
          /\ StopCalled
               => (lastCall'.outcome = "done" /\ LastStop'.st = "resolved"
                   /\ LastStop'.audioBlob = NullBlob)
          /\ StartCalled
               => (lastCall'.outcome = "done" /\ Acquiring')]_vars
C9_Witness ==
  /\ NumStops > 0
  /\ ~isRecording
  /\ lastCall = [op |-> "resume", outcome |-> "noop"]
  /\ \E s \in Sessions : recorders[s].state = "inactive"

\* C10 (under SpecTranscript): within a session the finalized transcript is
\* append-only: a step that is not a start() leaves the old value a prefix
\* of the new one, and a result event without final segments leaves it as
\* it was.
C10_FinalizedAppendOnly ==
  [][/\ ~StartCalled => IsPrefix(finalTranscriptRef, finalTranscriptRef')
     /\ \A s \in Sessions, ev \in ResultEvents(MaxResultLen) :
          (RecognitionResult(s, ev)
             /\ \A i \in (ev.resultIndex + 1)..Len(ev.results) : ~ev.results[i].isFinal)
            => UNCHANGED finalTranscriptRef]_vars
C10_Witness ==
  /\ nResults = 2
  /\ Len(finalTranscriptRef) = 4
  /\ finalTranscriptRef[1] # finalTranscriptRef[3]

\* The platform owes the hook nothing: every recorder stop event has fired,
\* every store continuation and request has been served.
Quiescent ==
  /\ \A s \in Sessions : ~recorders[s].stopQueued
  /\ dbWait = <<>>
  /\ dbQueue = <<>>

\* C11 (under Spec): a stop() made in Recording or Paused clears isRecording,
\* isPaused and the analyser and enters Finalizing; its promise resolves, once
\* the platform has delivered what it owes, with a non-null blob and the
\* finalized transcript, which ends the finalization in Idle; and the
\* lifecycle makes no transition but Idle->Recording, Recording<->Paused,
\* Recording/Paused->Finalizing, Finalizing->Idle and Idle->Error.
C11_StopFinalizes ==
  [][/\ (StopCalled /\ Lifecycle \in {"Recording", "Paused"})
          => (Lifecycle' = "Finalizing" /\ ~isRecording' /\ ~isPaused'
              /\ analyser' = Null)
     /\ \A k \in 1..Len(stops) :
          (stops[k].st = "pending" /\ stops'[k].st = "resolved")
            => (~stops'[k].audioBlob.isNull
                /\ stops'[k].transcript = finalTranscriptRef'
                /\ Lifecycle' = "Idle")
     /\ Quiescent' => \A k \in 1..Len(stops') : stops'[k].st = "resolved"
     /\ Lifecycle' # Lifecycle
          => <<Lifecycle, Lifecycle'>> \in
               {<<"Idle", "Recording">>, <<"Recording", "Paused">>,
                <<"Paused", "Recording">>, <<"Recording", "Finalizing">>,
                <<"Paused", "Finalizing">>, <<"Finalizing", "Idle">>,
                <<"Idle", "Error">>}]_vars

\* C12 (under Spec): whenever the controller is Idle, after any sequence of
\* calls and device outcomes, no stream with live tracks is held and no
\* duration timer is running.
C12_IdleHoldsNothing ==
  Lifecycle = "Idle" => (tracksLive = {} /\ DOMAIN timers = {})

\* Session s has been stopped and its stop() has returned a blob.
Released(s) ==
  \E k \in 1..Len(stops) :
    stops[k].rec = s /\ stops[k].st = "resolved" /\ ~stops[k].audioBlob.isNull

\* C13 (under SpecStore): once the stop() of a session has resolved with its
\* blob and the store has served every operation, none of which failed, the
\* store holds no record under the session's id, whatever checkpoint writes
\* (fifth chunk, pause) were outstanding at the stop (sessions that the
\* caller did not overlap with another start()).
C13_StoreCleared ==
  \A s \in Sessions :
    (Released(s) /\ Quiescent /\ ~overlapped /\ ~storeFailed)
      => ~store[s].present

\* C14 (under Spec): a failure of a store operation is never surfaced. It
\* leaves error, isRecording, isPaused and duration as they were and throws
\* nothing to a caller; a failed checkpoint write leaves the buffered chunks,
\* the promises and the stream as they were; a failed clear lets the stop()
\* it belongs to resolve with every chunk the session emitted and releases
\* the stream (sessions that the caller did not overlap with another start()).
C14_StoreFailureSwallowed ==
  [][/\ (GetDBReject \/ DbRequestDone(FALSE))
          => UNCHANGED <<error, isRecording, isPaused, duration, lastCall>>
     /\ ((GetDBReject /\ Head(dbWait).kind = "save")
           \/ (DbRequestDone(FALSE) /\ Head(dbQueue).kind = "put"))
          => UNCHANGED <<chunksRef, stops, streamRef, tracksLive>>
     /\ \A k \in 1..Len(stops) :
          (/\ ~overlapped
           /\ stops[k].st = "pending"
           /\ \/ GetDBReject /\ Head(dbWait).kind = "delete" /\ Head(dbWait).k = k
              \/ DbRequestDone(FALSE) /\ Head(dbQueue).kind = "delete"
                   /\ Head(dbQueue).k = k)
          => (/\ stops'[k].st = "resolved"
              /\ stops'[k].audioBlob =
                   [isNull |-> FALSE, parts |-> emitted[stops[k].rec]]
              /\ streamRef' = Null
              /\ streamRef \notin tracksLive')]_vars
C14_Witness ==
  \E s \in Sessions :
    /\ storeFailed /\ ~overlapped /\ Quiescent
    /\ Released(s)
    /\ store[s].present
    /\ tracksLive = {}
    /\ error = NoError

\* C15 (under SpecTranscript): the handler of a recognition error event, of
\* whatever kind, leaves the audio recording as it was: isRecording, isPaused,
\* the recorders and their streams, the duration timer and the buffered
\* chunks are unchanged.
C15_RecognitionErrorKeepsAudio ==
  [][\A s \in Sessions, e \in RecognitionErrors :
       RecognitionError(s, e)
         => UNCHANGED <<isRecording, isPaused, duration, mediaRecorderRef,
                        recorders, streamRef, tracksLive, timers, timerRef,
                        startTimeRef, pausedDurationRef, chunksRef>>]_vars
C15_Witness ==
  /\ error = RecognitionErrorMessage("audio-capture")
  /\ Lifecycle = "Recording"
  /\ recorders[mediaRecorderRef].state = "recording"
  /\ timerRef # Null
  /\ streamRef \in tracksLive

\* C16 (under SpecTranscript): in both hooks that wrap recognition, the error
\* handler leaves the error field as it was for 'no-speech' and 'network',
\* and sets it to the report of the error for every other kind.
C16_RecognitionErrorClasses ==
  [][\A s \in Sessions, e \in RecognitionErrors :
       RecognitionError(s, e)
         => IF e \in {"no-speech", "network"}
            THEN UNCHANGED error
            ELSE error' = RecognitionErrorMessage(e)]_vars

\* C17 (under Spec): in a hook that wraps recognition, on a platform without
\* speech recognition, the start() that is granted the device reaches
\* Recording with its recorder and a timer running and reports the missing
\* capability, which no other step reports; a stop() made in Recording or
\* Paused then resolves with a non-null blob and an empty transcript.
C17_NoRecognitionCapability ==
  [][(hook # "audio" /\ ~hasSpeech)
       => /\ \A s \in Sessions :
               GetUserMediaResolve(s)
                 => (/\ Lifecycle' = "Recording"
                     /\ recorders'[s].state = "recording"
                     /\ timerRef' \in DOMAIN timers'
                     /\ error' = UnsupportedError)
          /\ (error' = UnsupportedError /\ error # UnsupportedError)
               => \E s \in Sessions : GetUserMediaResolve(s)
          /\ \A k \in 1..Len(stops) :
               (stops[k].st = "pending" /\ stops'[k].st = "resolved")
                 => (~stops'[k].audioBlob.isNull
                     /\ stops'[k].transcript = <<>>)]_vars

\* C18 (under SpecClock): while the session stays Paused the reported
\* duration does not change; the pause() that takes effect pauses the
\* recorder, clears the tick timer and stores the reported duration as the
\* frozen value in one step; and a tick in Recording reports the frozen value
\* plus the whole seconds elapsed since the (re)start, never less than the
\* frozen value.
C18_FrozenDuration ==
  [][/\ (Lifecycle = "Paused" /\ Lifecycle' = "Paused") => duration' = duration
     /\ (PauseRecording /\ Lifecycle = "Recording")
          => (/\ Lifecycle' = "Paused"
              /\ recorders'[mediaRecorderRef].state = "paused"
              /\ timerRef' = Null /\ DOMAIN timers' = {}
              /\ pausedDurationRef' = duration
              /\ duration' = duration)
     /\ \A t \in DOMAIN timers :
          (TimerTick(t) /\ Lifecycle = "Recording")
            => (/\ duration' = pausedDurationRef + ((now - startTimeRef) \div Res)
                /\ duration' >= pausedDurationRef)]_vars

\* The segments of an event marked final, from its resultIndex on, in index
\* order, and their texts each followed by one space.
FinalSegments(ev) ==
  SelectSeq(SubSeq(ev.results, ev.resultIndex + 1, Len(ev.results)),
            LAMBDA r : r.isFinal)
RECURSIVE Spaced(_)
Spaced(segments) ==
  IF segments = <<>> THEN <<>>
  ELSE Head(segments).transcript \o <<" ">> \o Spaced(Tail(segments))

\* C19 (under SpecResults): the finalized transcript is the concatenation, in
\* the order the result events arrive and in index order within an event, of
\* the segments marked final, each followed by one space: start() empties
\* it, every result event appends exactly its final segments, and no other
\* step changes it.
C19_TranscriptIsFinalSegments ==
  [][/\ StartCalled => finalTranscriptRef' = <<>>
     /\ \A s \in Sessions, ev \in ResultEvents(ResultLen) :
          RecognitionResult(s, ev)
            => finalTranscriptRef' = finalTranscriptRef \o Spaced(FinalSegments(ev))
     /\ finalTranscriptRef' # finalTranscriptRef
          => \/ StartCalled
             \/ \E s \in Sessions, ev \in ResultEvents(ResultLen) :
                  RecognitionResult(s, ev)]_vars
C19_Witness ==
  /\ nResults = 2
  /\ finalTranscriptRef = <<"a", " ", "b", " ", "a", " ">>
  /\ liveTranscript = finalTranscriptRef \o <<"b">>

\* The device requests that have not been answered.
Requests == {s \in Sessions : starts[s].st = "acquiring"}

\* C20 (under SpecTranscript): a failed start() is not retried. Each start()
\* call makes one device request and nothing else makes one; a rejection
\* ends its request for good and sets the error; the error field then stays
\* set until the caller calls start() again, which clears it (and that
\* start() can reach Recording: the witness).
C20_NoAutomaticRetry ==
  [][/\ StartCalled
          => (Cardinality(Requests') = Cardinality(Requests) + 1
              /\ error' = NoError)
     /\ ~StartCalled => Requests' \subseteq Requests
     /\ \A s \in Sessions :
          /\ GetUserMediaReject(s)
               => (starts'[s].st = "rejected" /\ error' = MicError)
          /\ starts[s].st = "rejected" => starts'[s].st = "rejected"
     /\ (error = MicError /\ ~StartCalled) => error' # NoError]_vars
C20_Witness ==
  /\ starts[1].st = "rejected"
  /\ starts[2].st = "granted"
  /\ Lifecycle = "Recording"
  /\ error = NoError
  /\ ~overlapped


\* The requests a step issued to the store, and the continuations it left
\* waiting for the store to open.
Issued ==
  IF Len(dbQueue') > Len(dbQueue)
  THEN SubSeq(dbQueue', Len(dbQueue) + 1, Len(dbQueue')) ELSE <<>>
Waiting ==
  IF Len(dbWait') > Len(dbWait)
  THEN SubSeq(dbWait', Len(dbWait) + 1, Len(dbWait')) ELSE <<>>
\* A call of saveToIndexedDB got past its guard in this step.
SaveStarted ==
  \/ \E i \in 1..Len(Waiting) : Waiting[i].kind = "save"
  \/ ~GetDBResolve /\ \E i \in 1..Len(Issued) : Issued[i].kind = "put"

\* C21 (under SpecStore): a checkpoint write is started only by the handler
\* of a chunk that makes the buffered count a positive multiple of five, or by
\* a pause() that takes effect, and then with chunks buffered and a session
\* id set; every put issued to the store carries the whole buffer and the
\* session id as they are when it is issued, neither of them empty, and
\* synced = false.
C21_CheckpointWrites ==
  [][/\ SaveStarted
          => /\ \/ /\ \E s \in Sessions : DataAvailable(s, 1) \/ RecorderStopTask(s, 1)
                   /\ Len(chunksRef') = Len(chunksRef) + 1
                   /\ Len(chunksRef') % CheckpointEvery = 0
                \/ PauseRecording /\ PauseGuard
             /\ chunksRef' # <<>> /\ recordingIdRef' # Null
     /\ \A i \in 1..Len(Issued) :
          Issued[i].kind = "put"
            => (/\ Issued[i].chunks = chunksRef' /\ Issued[i].chunks # <<>>
                /\ Issued[i].id = recordingIdRef' /\ Issued[i].id # Null
                /\ Issued[i].synced = FALSE)]_vars


\* ============================================= transcribe-audio function
\* new Response(JSON.stringify({ transcription })): the status defaults to 200.
TranscriptionResponse(text) == [status |-> 200, kind |-> "transcription", text |-> text]
\* new Response(JSON.stringify({ error }), { status })
ErrorResponse(status, message) == [status |-> status, kind |-> "error", text |-> message]
\* The catch block: status 500 with the message of what was thrown.
Caught(message) == ErrorResponse(500, message)
\* data.choices?.[0]?.message?.content || ''
ContentOrEmpty(content) == IF content.defined THEN content.text ELSE ""
Respond(r, response) ==
  request' = [request EXCEPT ![r].pc = "responded", ![r].response = response]

\* The function receives request r and runs up to its first fetch().
Serve(r, method, key, form) ==
  /\ request[r].pc = "none"
  /\ IF method = "OPTIONS"
     THEN Respond(r, [status |-> 200, kind |-> "empty", text |-> ""])
     ELSE IF ~key THEN Respond(r, Caught("LOVABLE_API_KEY is not configured"))
     ELSE IF form = "malformed" THEN Respond(r, Caught("exception"))
     ELSE IF form = "noAudio" THEN Respond(r, Caught("No audio file provided"))
     ELSE request' = [request EXCEPT ![r].pc = "transcribing",
                                     ![r].calls.transcription = @ + 1]
  /\ UNCHANGED <<component, hook, hasSpeech, hookState, refs, starts, stops, platform,
                 storage, history, lastCall>>

\* The first fetch() of request r settled: the transcription.
TranscriptionReply(r, reply) ==
  LET content == ContentOrEmpty(reply.content)
      noted == [request EXCEPT ![r].replies.transcription = reply]
  IN
  /\ request[r].pc = "transcribing"
  /\ request' =
       IF reply.kind = "rejected"
       THEN [noted EXCEPT ![r].pc = "responded", ![r].response = Caught("exception")]
       ELSE IF ~Ok(reply.status)
       THEN [noted EXCEPT ![r].pc = "responded", ![r].response =
               IF reply.status = 429
               THEN ErrorResponse(429, "Rate limit exceeded. Please try again in a moment.")
               ELSE IF reply.status = 402
               THEN ErrorResponse(402, "AI usage limit reached. Please add credits to continue.")
               ELSE Caught("Failed to transcribe audio")]
       ELSE IF ~reply.json
       THEN [noted EXCEPT ![r].pc = "responded", ![r].response = Caught("exception")]
       ELSE IF content # ""
       THEN [noted EXCEPT ![r].pc = "postProcessing", ![r].transcription = content,
                          ![r].calls.postProcess = @ + 1]
       ELSE [noted EXCEPT ![r].pc = "responded", ![r].transcription = content,
                          ![r].response = TranscriptionResponse(content)]
  /\ UNCHANGED <<component, hook, hasSpeech, hookState, refs, starts, stops, platform,
                 storage, history, lastCall>>

\* The second fetch() of request r settled: the post-processing.
PostProcessReply(r, reply) ==
  LET noted == [request EXCEPT ![r].replies.postProcess = reply]
      corrected == reply.content
      transcription ==
        IF corrected.defined /\ corrected.text # "" THEN corrected.text
        ELSE request[r].transcription
  IN
  /\ request[r].pc = "postProcessing"
  /\ request' =
       IF reply.kind = "rejected"
       THEN [noted EXCEPT ![r].pc = "responded", ![r].response = Caught("exception")]
       ELSE IF ~Ok(reply.status)
       THEN [noted EXCEPT ![r].pc = "responded",
                          ![r].response = TranscriptionResponse(request[r].transcription)]
       ELSE IF ~reply.json
       THEN [noted EXCEPT ![r].pc = "responded", ![r].response = Caught("exception")]
       ELSE [noted EXCEPT ![r].pc = "responded", ![r].transcription = transcription,
                          ![r].response = TranscriptionResponse(transcription)]
  /\ UNCHANGED <<component, hook, hasSpeech, hookState, refs, starts, stops, platform,
                 storage, history, lastCall>>

\* The function under concurrent requests and every outcome of its upstream
\* calls; no recorder is in use.
NextHandler ==
  \/ \E r \in HttpRequests, method \in Methods, key \in BOOLEAN, form \in FormBodies :
       Serve(r, method, key, form)
  \/ \E r \in HttpRequests, reply \in Replies : TranscriptionReply(r, reply)
  \/ \E r \in HttpRequests, reply \in Replies : PostProcessReply(r, reply)

SpecHandler == Init /\ [][NextHandler]_vars

\* The post-processing call of a request failed or gave no content.
PostProcessFailed(q) ==
  /\ q.replies.postProcess.kind # "none"
  /\ \/ q.replies.postProcess.kind = "rejected"
     \/ ~Ok(q.replies.postProcess.status)
     \/ ~q.replies.postProcess.json
     \/ ContentOrEmpty(q.replies.postProcess.content) = ""
\* The initial transcription call of a request failed.
TranscriptionFailed(q) ==
  /\ q.replies.transcription.kind # "none"
  /\ \/ q.replies.transcription.kind = "rejected"
     \/ ~Ok(q.replies.transcription.status)

\* C22 (under SpecHandler): in the transcribe-audio function the
\* post-processing call is an optional fallback without retry. A request whose
\* post-processing call failed or returned empty content is answered with
\* status 200 and the initial transcription; no request issues either upstream
\* call more than once; and a request whose initial transcription call failed
\* is answered with the upstream's status when that is 429 or 402, and with
\* 500 otherwise.
C22_OptionalPostProcessing ==
  \A r \in HttpRequests :
    /\ request[r].calls.transcription <= 1 /\ request[r].calls.postProcess <= 1
    /\ (request[r].pc = "responded" /\ PostProcessFailed(request[r]))
         => request[r].response =
              TranscriptionResponse(ContentOrEmpty(request[r].replies.transcription.content))
    /\ (request[r].pc = "responded" /\ TranscriptionFailed(request[r]))
         => request[r].response.status =
              IF request[r].replies.transcription.status \in {429, 402}
              THEN request[r].replies.transcription.status ELSE 500

\* The recorders that deliver chunks to the buffer.
Running == {s \in Sessions : recorders[s].state = "recording"}
\* A start() was called while a session was Recording or Paused: the
\* isRecording of the render it was called in was set.
StartedWhileActive ==
  \E s \in Sessions : starts[s].st # "none" /\ starts[s].cloIsRecording

\* C23 (under Spec): one session at a time. After a start() called while a
\* session is Recording or Paused there are never two streams with live
\* tracks, two recorders delivering chunks to the buffer, or two duration
\* timers; and once every stop() has resolved and nothing is recording or
\* being acquired, no stream has live tracks and no timer is left running.
C23_SingleSession ==
  StartedWhileActive =>
    /\ Cardinality(tracksLive) <= 1
    /\ Cardinality(Running) <= 1
    /\ Cardinality(DOMAIN timers) <= 1
    /\ (stops # <<>> /\ ~StopPending /\ ~isRecording /\ ~Acquiring)
         => (tracksLive = {} /\ DOMAIN timers = {})

\* Some start() was called while a stop() was being finalized, and every
\* other one in Idle or Error.
StartedWhileFinalizing ==
  /\ \E s \in Sessions : starts[s].phase = "Finalizing"
  /\ \A s \in Sessions : starts[s].phase \in {"none", "Idle", "Error", "Finalizing"}
\* The chunks of recorder s, as emitted by the end of the step, that a buffer
\* holds.
Buffered(chunks, s) ==
  SelectSeq(chunks, LAMBDA c : \E i \in 1..Len(emitted'[s]) : emitted'[s][i] = c)

\* C24 (under Spec): the finalization of a stopped session leaves a session
\* started meanwhile alone. When start() was called while a stop() was being
\* finalized, that stop() still resolves with every chunk its session
\* emitted, the step that resolves it keeps the chunks the new session has
\* buffered and the live tracks of the new session's stream, and the delete
\* issued for it names the stopped session's record.
C24_FinalizationIsolated ==
  [][StartedWhileFinalizing =>
       /\ \A k \in 1..Len(stops) :
            (stops[k].st = "pending" /\ stops'[k].st = "resolved"
               /\ ~stops'[k].audioBlob.isNull)
              => /\ stops'[k].audioBlob.parts = emitted'[stops[k].rec]
                 /\ \A s \in Sessions \ {stops[k].rec} :
                      /\ Buffered(chunksRef', s) = Buffered(chunksRef, s)
                      /\ s \in tracksLive => s \in tracksLive'
       /\ \A i \in 1..Len(Issued) :
            Issued[i].kind = "delete" => Issued[i].id = stops[Issued[i].k].rec]_vars

\* C25 (under SpecTranscript): the finalized transcript belongs to one
\* session. Every start() empties it, and a result event that the recognition
\* of an earlier session delivers late, after that session was stopped and a
\* later session was started from Idle, leaves the finalized transcript of
\* the later session as it is.
C25_TranscriptOfOwnSession ==
  [][/\ StartCalled => finalTranscriptRef' = <<>>
     /\ \A s \in Sessions, ev \in ResultEvents(MaxResultLen) :
          (RecognitionResult(s, ev) /\ s < NumStarts /\ recogs[s] = "stopping"
             /\ ~overlapped)
            => UNCHANGED finalTranscriptRef]_vars

\* C26 (under Spec): the end handler never starts recognition while the
\* session is Paused or after stop(): an end event that arrives in Paused,
\* Finalizing or Idle leaves the recognition that ended stopped and every
\* other one as it was.
C26_NoRestartAfterPauseOrStop ==
  [][\A s \in Sessions :
       (RecognitionEnd(s) /\ Lifecycle \in {"Paused", "Finalizing", "Idle"})
         => (/\ recogs'[s] = "stopped"
             /\ \A r \in Sessions \ {s} : recogs'[r] = recogs[r])]_vars

\* C27 (under Spec): in every reachable state of each hook, isPaused implies
\* isRecording, whatever the interleaving of start, pause, resume and stop
\* calls with the platform's callbacks.
C27_PausedImpliesRecording == isPaused => isRecording
C27_Witness ==
  /\ isPaused /\ isRecording
  /\ NumStarts = 2 /\ overlapped
  /\ lastCall = Call("pause", "done")

\* C28 (under SpecStore): every checkpoint record is a consistent snapshot.
\* The chunk list of a record is a prefix of the chunks emitted so far by the
\* session whose id the record carries, and a write that replaces the record
\* of a session never leaves it with fewer chunks than it held (sessions that
\* the caller did not overlap with another start()).
C28_ConsistentSnapshot ==
  [][~overlapped' =>
       \A id \in Sessions :
         /\ store'[id].present => IsPrefix(store'[id].chunks, emitted'[id])
         /\ (store[id].present /\ store'[id].present)
              => Len(store'[id].chunks) >= Len(store[id].chunks)]_vars

\* ------------------------------------------------------------ CreatorStudio
\* What the steps of the page leave alone.
HookUnchanged ==
  UNCHANGED <<request, hook, hasSpeech, hookState, refs, starts, stops,
              platform, storage, history, lastCall, host>>

\* The recording controls are rendered (stage === 'recording' && isRecording).
StudioControls == stage = "recording" /\ isRecording

\* The page's buttons that call the hook: the start button of the ready
\* screen, and Pause, Resume and Finish Recording of the recording screen.
HandleStartRecording == stage = "ready" /\ StartRecording
StudioPause == StudioControls /\ ~isPaused /\ PauseRecording
StudioResume == StudioControls /\ isPaused /\ ResumeRecording
HandleStopRecording == StudioControls /\ StopRecording

HandleContinueToSelect ==
  /\ stage = "inputs"
  /\ stage' = "platform-select"
  /\ HookUnchanged
  /\ UNCHANGED <<processingStage, generatedContent, errorMessage, recorded, handlers>>

\* The Back button of the platform screen.
BackToInputs ==
  /\ stage = "platform-select"
  /\ stage' = "inputs"
  /\ HookUnchanged
  /\ UNCHANGED <<processingStage, generatedContent, errorMessage, recorded, handlers>>

\* handlePlatformConfirm up to its first await; selected: selectedPlatforms
\* is not empty.
HandlePlatformConfirm(selected) ==
  /\ stage = "platform-select"
  /\ IF selected
     THEN /\ stage' = "processing"
          /\ handlers' = handlers \cup {Handler("handlePlatformConfirm", 0)}
     ELSE UNCHANGED <<stage, handlers>>
  /\ HookUnchanged
  /\ UNCHANGED <<processingStage, generatedContent, errorMessage, recorded>>

\* The rest of handlePlatformConfirm: its uploads and invocations went
\* through (ok) or one of them threw.
PlatformConfirmSettles(ok) ==
  /\ \E h \in handlers :
       /\ h.name = "handlePlatformConfirm"
       /\ handlers' = handlers \ {h}
  /\ stage' = IF ok THEN "completed" ELSE "platform-select"
  /\ generatedContent' = IF ok THEN "content" ELSE generatedContent
  /\ HookUnchanged
  /\ UNCHANGED <<processingStage, errorMessage, recorded>>

\* handleReset, from the inputs screen or the completed screen.
StudioReset ==
  /\ stage \in {"inputs", "completed"}
  /\ stage' = "ready"
  /\ generatedContent' = "empty"
  /\ recorded' = NoRecording
  /\ HookUnchanged
  /\ UNCHANGED <<processingStage, errorMessage, handlers>>

\* The CreatorStudio page around the offline hook: the hook is called from
\* the buttons the page renders, the recorders emit only empty blobs.
InitStudio == InitHooks /\ hook = "offline" /\ InitComponent("CreatorStudio")

NextStudio ==
  \/ NumStarts < StudioStarts /\ HandleStartRecording
  \/ Len(dbWait) + Len(dbQueue) < MaxPending /\ StudioPause
  \/ StudioResume
  \/ NumStops < StudioStops /\ HandleStopRecording
  \/ HandleContinueToSelect
  \/ BackToInputs
  \/ \E selected \in BOOLEAN : HandlePlatformConfirm(selected)
  \/ \E ok \in BOOLEAN : PlatformConfirmSettles(ok)
  \/ StudioReset
  \/ Device
  \/ \E s \in Sessions : RecorderStopTask(s, 0)
  \/ Storage
  \/ \E s \in Sessions : RecognitionEnd(s)

SpecStudio == InitStudio /\ [][NextStudio]_vars

\* C29: on the CreatorStudio page, whenever the stage is 'recording' the
\* recorder reports isRecording or a stop is in progress, and after a start
\* that failed the page is on the screen that shows the error and the start
\* button (the ready screen).
C29_RecordingStageIsLive ==
  /\ stage = "recording" => (isRecording \/ StopPending)
  /\ error = MicError => stage = "ready"

\* -------------------------------------------------------- LiveEventRecorder
\* What the component renders: its return statements in their order.
LiveScreen ==
  IF processingStage = "idle" /\ ~isRecording THEN "start"
  ELSE IF isRecording THEN "recording"
  ELSE IF processingStage \in {"uploading", "transcribing", "analyzing", "generating"}
       THEN "processing"
  ELSE IF processingStage = "error" THEN "error"
  ELSE IF processingStage = "completed" /\ generatedContent = "content" THEN "results"
  ELSE "blank"

\* The component's buttons that call the hook: Start Recording of the start
\* screen, and Pause, Resume and Stop & Generate of the recording screen.
LiveStart == LiveScreen = "start" /\ StartRecording
LivePause == LiveScreen = "recording" /\ ~isPaused /\ PauseRecording
LiveResume == LiveScreen = "recording" /\ isPaused /\ ResumeRecording
HandleStopAndProcess == LiveScreen = "recording" /\ StopRecording

\* handleStopAndProcess h goes on to its next await.
Await(h, pc) == handlers' = (handlers \ {h}) \cup {[h EXCEPT !.pc = pc]}
Goes(h, pc) ==
  /\ Await(h, pc)
  /\ UNCHANGED <<processingStage, errorMessage, generatedContent>>

\* The catch block of handleStopAndProcess.
Throws(h, message) ==
  /\ handlers' = handlers \ {h}
  /\ processingStage' = "error"
  /\ errorMessage' = message
  /\ UNCHANGED generatedContent

\* The runs of handleStopAndProcess that await at pc.
At(pc) == {h \in handlers : h.name = "handleStopAndProcess" /\ h.pc = pc}

\* supabase.auth.getUser() settles.
GetUserSettles(h, user) ==
  /\ h \in At("getUser")
  /\ IF user THEN Goes(h, "insert") ELSE Throws(h, "Not authenticated")
  /\ HookUnchanged
  /\ UNCHANGED <<stage, recorded>>

\* The insert into event_recordings settles.
InsertSettles(h, ok) ==
  /\ h \in At("insert")
  /\ IF ok THEN Goes(h, "upload") ELSE Throws(h, "insertError")
  /\ HookUnchanged
  /\ UNCHANGED <<stage, recorded>>

\* The upload of the audio settles.
UploadSettles(h, ok) ==
  /\ h \in At("upload")
  /\ IF ok THEN Goes(h, "update") ELSE Throws(h, "uploadError")
  /\ HookUnchanged
  /\ UNCHANGED <<stage, recorded>>

\* The update of audio_url settles (its result is not read): a short live
\* transcript sends the audio to transcribe-audio, any other goes on to
\* process-event-audio.
UpdateSettles(h) ==
  /\ h \in At("update")
  /\ IF Len(h.transcription) < MinTranscript
     THEN /\ processingStage' = "transcribing"
          /\ Await(h, "transcribe")
     ELSE /\ processingStage' = "analyzing"
          /\ Await(h, "process")
  /\ HookUnchanged
  /\ UNCHANGED <<stage, recorded, errorMessage, generatedContent>>

\* The invocation of transcribe-audio settles: with an error, or with data
\* whose transcription is text (one character stands for it).
TranscribeReplies == {[error |-> TRUE, transcription |-> <<>>],
                      [error |-> FALSE, transcription |-> <<>>],
                      [error |-> FALSE, transcription |-> <<"a">>]}
TranscribeSettles(h, reply) ==
  /\ h \in At("transcribe")
  /\ IF reply.error THEN Throws(h, "Transcription failed")
     ELSE IF reply.transcription = <<>> THEN Throws(h, "No transcription available")
     ELSE /\ processingStage' = "analyzing"
          /\ handlers' = (handlers \ {h})
               \cup {[h EXCEPT !.pc = "process", !.transcription = reply.transcription]}
          /\ UNCHANGED <<errorMessage, generatedContent>>
  /\ HookUnchanged
  /\ UNCHANGED <<stage, recorded>>

\* The invocation of process-event-audio settles: with an error, without
\* data, with data that has no content, or with content.
ProcessReplies == {"error", "noData", "noContent", "content"}
ProcessSettles(h, reply) ==
  /\ h \in At("process")
  /\ IF reply = "error" THEN Throws(h, "Processing failed")
     ELSE /\ processingStage' = "generating"
          /\ handlers' = (handlers \ {h})
               \cup {[h EXCEPT !.pc = "timeout", !.data = reply]}
          /\ UNCHANGED <<errorMessage, generatedContent>>
  /\ HookUnchanged
  /\ UNCHANGED <<stage, recorded>>

\* The 500 ms timeout fires: processResponse.data.content is read.
TimeoutFires(h) ==
  /\ h \in At("timeout")
  /\ IF h.data = "noData" THEN Throws(h, "TypeError")
     ELSE /\ generatedContent' = (IF h.data = "content" THEN "content" ELSE "undefined")
          /\ processingStage' = "completed"
          /\ handlers' = handlers \ {h}
          /\ UNCHANGED errorMessage
  /\ HookUnchanged
  /\ UNCHANGED <<stage, recorded>>

\* handleReset, from the error screen or the results screen.
LiveReset ==
  /\ LiveScreen \in {"error", "results"}
  /\ processingStage' = "idle"
  /\ generatedContent' = "null"
  /\ errorMessage' = NoMessage
  /\ HookUnchanged
  /\ UNCHANGED <<stage, recorded, handlers>>

\* Result events of one result whose text is about as long as the shortest
\* transcript that is used as it is.
LiveLengths == {MinTranscript \div 2, MinTranscript - 1, MinTranscript}
LiveEvents ==
  {[resultIndex |-> 0,
    results |-> <<[transcript |-> [i \in 1..n |-> "a"], isFinal |-> f]>>]
     : n \in LiveLengths, f \in BOOLEAN}

\* LiveEventRecorder around the realtime hook: the hook is called from the
\* buttons the component renders, the recorders emit only empty blobs.
InitLive == InitHooks /\ hook = "realtime" /\ InitComponent("LiveEventRecorder")

NextLive ==
  \/ NumStarts < LiveStarts /\ LiveStart
  \/ LivePause
  \/ LiveResume
  \/ NumStops < LiveStops /\ HandleStopAndProcess
  \/ \E h \in handlers, user \in BOOLEAN : GetUserSettles(h, user)
  \/ \E h \in handlers, ok \in BOOLEAN : InsertSettles(h, ok)
  \/ \E h \in handlers, ok \in BOOLEAN : UploadSettles(h, ok)
  \/ \E h \in handlers : UpdateSettles(h)
  \/ \E h \in handlers, reply \in TranscribeReplies : TranscribeSettles(h, reply)
  \/ \E h \in handlers, reply \in ProcessReplies : ProcessSettles(h, reply)
  \/ \E h \in handlers : TimeoutFires(h)
  \/ LiveReset
  \/ Device
  \/ \E s \in Sessions : RecorderStopTask(s, 0)
  \/ \E s \in Sessions, ev \in LiveEvents :
       nResults < LiveResults /\ RecognitionResult(s, ev)
  \/ \E s \in Sessions : RecognitionEnd(s)

SpecLive == InitLive /\ [][NextLive]_vars

\* The stage changes of one run of handleStopAndProcess, and of handleReset.
StageOrder ==
  {<<"idle", "uploading">>, <<"uploading", "transcribing">>,
   <<"uploading", "analyzing">>, <<"transcribing", "analyzing">>,
   <<"analyzing", "generating">>, <<"generating", "completed">>,
   <<"error", "idle">>, <<"completed", "idle">>}
  \cup {<<s, "error">> : s \in {"uploading", "transcribing", "analyzing", "generating"}}

\* The run h of handleStopAndProcess is over after the step.
Over(h) == \A g \in handlers' : g.on # h.on

\* C30: in LiveEventRecorder the processing stage changes only along
\* idle -> uploading -> [transcribing] -> analyzing -> generating ->
\* completed, to 'error' from a stage of a run, and from 'error' or
\* 'completed' to 'idle'; 'transcribing' is entered only by a run whose live
\* transcript is shorter than 20 characters; a run that ends past its upload
\* stage leaves the stage 'error', or 'completed' if it got its content
\* after the timeout; and a stop that resolves without a blob leaves the
\* stage as it is.
C30_StageOrder ==
  [][/\ processingStage' # processingStage
          => <<processingStage, processingStage'>> \in StageOrder
     /\ (processingStage' # processingStage /\ processingStage' = "transcribing")
          => \E h \in At("update") : Len(h.transcription) < MinTranscript
     /\ \A h \in handlers :
          (h.pc # "await" /\ Over(h))
            => \/ processingStage' = "error"
               \/ /\ processingStage' = "completed"
                  /\ h.pc = "timeout"
                  /\ h.data # "noData"
     /\ \A k \in 1..Len(stops') :
          (/\ k <= Len(stops) => stops[k].st = "pending"
           /\ stops'[k].st = "resolved"
           /\ stops'[k].audioBlob.isNull)
            => processingStage' = processingStage]_vars
====
